---- MODULE Spec2Model ----
(***************************************************************************)
(* Model of the text core of ai_cli: the sentence segmenter, the           *)
(* frequency summarizer (utils.py) and the MCQ quiz builder                *)
(* (quiz_generator.py), with the file / transcript entry points that call  *)
(* them (summarizer.py, youtube_summary.py, main.py).                      *)
(*                                                                         *)
(* Text is a TLA+ string, read character by character: the regular         *)
(* expressions of the source (\s+, \w+, (?<=[.!?])\s+, \b..\b) are         *)
(* computed on the characters, as the source computes them.                *)
(***************************************************************************)
EXTENDS Integers, Sequences, FiniteSets, TLC

(***************************************************************************)
(* Characters                                                              *)
(***************************************************************************)

\* The i-th character of s, as a one-character string.
Char(s, i) == SubSeq(s, i, i)

UpperLetters == <<"A", "B", "C", "D", "E", "F", "G", "H", "I", "J", "K", "L", "M",
                  "N", "O", "P", "Q", "R", "S", "T", "U", "V", "W", "X", "Y", "Z">>

LowerLetters == <<"a", "b", "c", "d", "e", "f", "g", "h", "i", "j", "k", "l", "m",
                  "n", "o", "p", "q", "r", "s", "t", "u", "v", "w", "x", "y", "z">>

Digits == {"0", "1", "2", "3", "4", "5", "6", "7", "8", "9"}

\* \s of the re module, on the characters the inputs use.
IsSpace(c) == c \in {" ", "\n", "\t"}

\* \w of the re module: letters, digits, underscore.
WordChars ==
    {UpperLetters[i] : i \in 1..26} \cup {LowerLetters[i] : i \in 1..26} \cup Digits \cup {"_"}

IsWordChar(c) == c \in WordChars

\* [.!?] of the sentence splitter.
IsTerminator(c) == c \in {".", "!", "?"}

UpperSet == {UpperLetters[i] : i \in 1..26}

\* The lowercase letter of every uppercase letter.
LowerOf == [c \in UpperSet |-> LowerLetters[CHOOSE i \in 1..26 : UpperLetters[i] = c]]

LowerChar(c) == IF c \in UpperSet THEN LowerOf[c] ELSE c

\* str.lower()
RECURSIVE Lower(_)
Lower(s) == IF Len(s) = 0 THEN "" ELSE LowerChar(Char(s, 1)) \o Lower(Tail(s))

(***************************************************************************)
(* utils.py: STOPWORDS, normalize_whitespace, split_sentences              *)
(***************************************************************************)

STOPWORDS ==
    {"a", "an", "and", "are", "as", "at", "be", "by", "for", "from", "has", "have",
     "he", "her", "his", "i", "in", "is", "it", "its", "of", "on", "or", "that",
     "the", "their", "there", "they", "this", "to", "was", "were", "will", "with",
     "you", "your"}

\* str.lstrip() / str.rstrip() / str.strip()
RECURSIVE LStrip(_)
LStrip(s) == IF Len(s) > 0 /\ IsSpace(Char(s, 1)) THEN LStrip(Tail(s)) ELSE s

RECURSIVE RStrip(_)
RStrip(s) ==
    IF Len(s) > 0 /\ IsSpace(Char(s, Len(s)))
    THEN RStrip(SubSeq(s, 1, Len(s) - 1))
    ELSE s

Strip(s) == RStrip(LStrip(s))

\* re.sub(r"\s+", " ", s): every run of whitespace becomes one space.
RECURSIVE CollapseWhitespace(_)
CollapseWhitespace(s) ==
    IF Len(s) = 0 THEN ""
    ELSE IF IsSpace(Char(s, 1))
         THEN " " \o CollapseWhitespace(LStrip(s))
         ELSE Char(s, 1) \o CollapseWhitespace(Tail(s))

normalize_whitespace(s) == Strip(CollapseWhitespace(s))

\* The first index i > 1 of s that holds whitespace preceded by a terminator
\* (where (?<=[.!?])\s+ first matches), or 0.
RECURSIVE BoundaryFrom(_, _)
BoundaryFrom(s, i) ==
    IF i > Len(s) THEN 0
    ELSE IF IsSpace(Char(s, i)) /\ i > 1 /\ IsTerminator(Char(s, i - 1))
         THEN i
         ELSE BoundaryFrom(s, i + 1)

\* re.split(r"(?<=[.!?])\s+", s)
RECURSIVE ReSplit(_)
ReSplit(s) ==
    LET b == BoundaryFrom(s, 1)
    IN  IF b = 0 THEN <<s>>
        ELSE <<SubSeq(s, 1, b - 1)>> \o ReSplit(LStrip(SubSeq(s, b, Len(s))))

\* [p.strip() for p in parts if p.strip()]
RECURSIVE StripNonEmpty(_)
StripNonEmpty(parts) ==
    IF parts = <<>> THEN <<>>
    ELSE LET p == Strip(Head(parts))
         IN  (IF Len(p) > 0 THEN <<p>> ELSE <<>>) \o StripNonEmpty(Tail(parts))

split_sentences(s) ==
    LET t == normalize_whitespace(s)
    IN  IF Len(t) = 0 THEN <<>> ELSE StripNonEmpty(ReSplit(t))

\* The length of the run of word characters that starts s.
RECURSIVE WordRun(_)
WordRun(s) ==
    IF Len(s) > 0 /\ IsWordChar(Char(s, 1)) THEN 1 + WordRun(Tail(s)) ELSE 0

\* re.findall(r"\w+", s)
RECURSIVE FindWords(_)
FindWords(s) ==
    IF Len(s) = 0 THEN <<>>
    ELSE LET n == WordRun(s)
         IN  IF n = 0 THEN FindWords(Tail(s))
             ELSE <<SubSeq(s, 1, n)>> \o FindWords(SubSeq(s, n + 1, Len(s)))

\* The length of the run of non-whitespace characters that starts s.
RECURSIVE NonSpaceRun(_)
NonSpaceRun(s) ==
    IF Len(s) > 0 /\ ~IsSpace(Char(s, 1)) THEN 1 + NonSpaceRun(Tail(s)) ELSE 0

\* str.split(): the whitespace-delimited words.
RECURSIVE SplitWhitespace(_)
SplitWhitespace(s) ==
    IF Len(s) = 0 THEN <<>>
    ELSE LET n == NonSpaceRun(s)
         IN  IF n = 0 THEN SplitWhitespace(Tail(s))
             ELSE <<SubSeq(s, 1, n)>> \o SplitWhitespace(SubSeq(s, n + 1, Len(s)))

\* sep.join(parts)
RECURSIVE Join(_, _)
Join(sep, parts) ==
    IF parts = <<>> THEN ""
    ELSE IF Len(parts) = 1 THEN parts[1]
         ELSE parts[1] \o sep \o Join(sep, Tail(parts))

(***************************************************************************)
(* utils.py: _build_word_frequencies, summarize_text                       *)
(***************************************************************************)

\* Prefix with the slice one too long: seq[:n + 1].
PrefixOneMore(seq, n) == SubSeq(seq, 1, IF n + 1 < Len(seq) THEN n + 1 ELSE Len(seq))

\* seq[:n] for n >= 0
Prefix(seq, n) == SubSeq(seq, 1, IF n < Len(seq) THEN n ELSE Len(seq))

\* The tokens of every sentence, lowercased, in order.
RECURSIVE LowerTokens(_)
LowerTokens(sentences) ==
    IF sentences = <<>> THEN <<>>
    ELSE FindWords(Lower(Head(sentences))) \o LowerTokens(Tail(sentences))

\* The tokens _build_word_frequencies counts: not a stopword, longer than 2.
Counted(tok) == ~(tok \in STOPWORDS \/ Len(tok) <= 2)

\* The frequency table: token -> number of occurrences, over the counted tokens.
\* An empty table is the function with the empty domain.
_build_word_frequencies(sentences) ==
    LET toks == LowerTokens(sentences)
        keys == {toks[i] : i \in {j \in 1..Len(toks) : Counted(toks[j])}}
    IN  [k \in keys |-> Cardinality({i \in 1..Len(toks) : toks[i] = k})]

\* freqs.get(tok, 0)
FreqGet(freqs, tok) == IF tok \in DOMAIN freqs THEN freqs[tok] ELSE 0

RECURSIVE SumFreq(_, _)
SumFreq(freqs, toks) ==
    IF toks = <<>> THEN 0 ELSE FreqGet(freqs, Head(toks)) + SumFreq(freqs, Tail(toks))

\* score = sum(freqs.get(tok, 0) for tok in re.findall(r"\w+", sentence.lower()))
Score(freqs, sentence) == SumFreq(freqs, FindWords(Lower(sentence)))

\* [(score, idx, sentence) for idx, sentence in enumerate(sentences)], idx from 0.
ScoredSentences(sentences, freqs) ==
    [i \in 1..Len(sentences) |->
        [score |-> Score(freqs, sentences[i]), idx |-> i - 1, sentence |-> sentences[i]]]

\* InsertByScoreDesc with x going in ahead of the elements of its own score: a
\* sort that does not keep the order of equal elements.
RECURSIVE InsertByScoreDescTiesFirst(_, _)
InsertByScoreDescTiesFirst(sorted, x) ==
    IF sorted = <<>> THEN <<x>>
    ELSE IF Head(sorted).score > x.score
         THEN <<Head(sorted)>> \o InsertByScoreDescTiesFirst(Tail(sorted), x)
         ELSE <<x>> \o sorted

\* list.sort(key=score, reverse=True): a stable sort, so that elements of equal
\* score keep the order they had. x goes in behind every element of score >= its own.
RECURSIVE InsertByScoreDesc(_, _)
InsertByScoreDesc(sorted, x) ==
    IF sorted = <<>> THEN <<x>>
    ELSE IF Head(sorted).score >= x.score
         THEN <<Head(sorted)>> \o InsertByScoreDesc(Tail(sorted), x)
         ELSE <<x>> \o sorted

RECURSIVE SortByScoreDesc(_)
SortByScoreDesc(seq) ==
    IF seq = <<>> THEN <<>>
    ELSE InsertByScoreDesc(SortByScoreDesc(SubSeq(seq, 1, Len(seq) - 1)), seq[Len(seq)])

\* sorted(top, key=idx): stable, ascending in the original index.
RECURSIVE InsertByIdx(_, _)
InsertByIdx(sorted, x) ==
    IF sorted = <<>> THEN <<x>>
    ELSE IF Head(sorted).idx <= x.idx
         THEN <<Head(sorted)>> \o InsertByIdx(Tail(sorted), x)
         ELSE <<x>> \o sorted

\* SortByIdx that sorts nothing: the sequence stays in the order it came in.
SortByIdxLeftAsIs(seq) == seq

RECURSIVE SortByIdx(_)
SortByIdx(seq) ==
    IF seq = <<>> THEN <<>>
    ELSE InsertByIdx(SortByIdx(SubSeq(seq, 1, Len(seq) - 1)), seq[Len(seq)])

\* TopSentences without the sort by index: the top stays in score order.
TopSentencesInScoreOrder(scored, max_sentences) ==
    Prefix(SortByScoreDesc(scored), max_sentences)

\* top = sorted(scored_sentences[:max_sentences], key=idx) after the score sort.
TopSentences(scored, max_sentences) ==
    SortByIdx(Prefix(SortByScoreDesc(scored), max_sentences))

\* The (score, idx, sentence) triples summarize_text joins, in output order. On
\* the two paths that do not score, the score field is 0 and unused.
SummarySelection(t, max_sentences) ==
    LET sentences == split_sentences(normalize_whitespace(t))
        unscored  == [i \in 1..Len(sentences) |->
                        [score |-> 0, idx |-> i - 1, sentence |-> sentences[i]]]
        freqs     == _build_word_frequencies(sentences)
    IN  IF sentences = <<>> THEN <<>>
        ELSE IF Len(sentences) <= max_sentences THEN unscored
        ELSE IF DOMAIN freqs = {} THEN Prefix(unscored, max_sentences)
        ELSE TopSentences(ScoredSentences(sentences, freqs), max_sentences)

\* JoinSelection with no separator: "".join(...).
JoinSelectionNoSpace(selection) ==
    Join("", [i \in 1..Len(selection) |-> selection[i].sentence])

\* " ".join(sentence for _, _, sentence in selection)
JoinSelection(selection) ==
    Join(" ", [i \in 1..Len(selection) |-> selection[i].sentence])

summarize_text(t, max_sentences) == JoinSelection(SummarySelection(t, max_sentences))

(***************************************************************************)
(* quiz_generator.py: the pure parts                                       *)
(***************************************************************************)

\* The blank marker _build_question puts in place of the answer.
BLANK == "____"

\* [s for s in split_sentences(text) if len(s.split()) >= 5]
RECURSIVE EligibleSentences(_)
EligibleSentences(sentences) ==
    IF sentences = <<>> THEN <<>>
    ELSE (IF Len(SplitWhitespace(Head(sentences))) >= 5 THEN <<Head(sentences)>> ELSE <<>>)
         \o EligibleSentences(Tail(sentences))

\* FilterCandidates with the used answers compared as written, not lowercased.
RECURSIVE FilterCandidatesCaseSensitive(_, _)
FilterCandidatesCaseSensitive(tokens, used_answers) ==
    IF tokens = <<>> THEN <<>>
    ELSE LET t == Head(tokens)
         IN  (IF Len(t) > 3 /\ Lower(t) \notin STOPWORDS /\ t \notin used_answers
              THEN <<t>> ELSE <<>>)
             \o FilterCandidatesCaseSensitive(Tail(tokens), used_answers)

\* The candidate list of _select_answer_word: the tokens of the sentence longer
\* than 3 that are no stopword and no answer used before, in sentence order.
RECURSIVE FilterCandidates(_, _)
FilterCandidates(tokens, used_answers) ==
    IF tokens = <<>> THEN <<>>
    ELSE LET t == Head(tokens)
         IN  (IF Len(t) > 3 /\ Lower(t) \notin STOPWORDS /\ Lower(t) \notin used_answers
              THEN <<t>> ELSE <<>>)
             \o FilterCandidates(Tail(tokens), used_answers)

Candidates(sentence, used_answers) == FilterCandidates(FindWords(sentence), used_answers)

\* What a call can come to: a value, None, or an exception that propagates.
Value(v) == [kind |-> "value", value |-> v]
None == [kind |-> "none"]
Raise(exc) == [kind |-> "raise", exc |-> exc]

\* random.choice(seq): any element; IndexError on an empty sequence.
RandomChoice(seq) ==
    IF seq = <<>> THEN {Raise("IndexError")}
    ELSE {Value(seq[i]) : i \in 1..Len(seq)}

\* _select_answer_word without its "if not candidates" guard.
SelectAnswerWordUnguarded(sentence, used_answers) ==
    RandomChoice(Candidates(sentence, used_answers))

\* The outcomes of _select_answer_word(sentence, used_answers).
_select_answer_word(sentence, used_answers) ==
    LET candidates == Candidates(sentence, used_answers)
    IN  IF candidates = <<>> THEN {None} ELSE RandomChoice(candidates)

\* pattern.sub("____", sentence, count=1) for the pattern \b<answer>\b, IGNORECASE.
\* The answer is a run of word characters, so the pattern matches exactly the
\* maximal runs of word characters that equal it but for case; the first is replaced.
RECURSIVE _build_question(_, _)
_build_question(sentence, answer) ==
    IF Len(sentence) = 0 THEN ""
    ELSE LET n == WordRun(sentence)
         IN  IF n = 0
             THEN Char(sentence, 1) \o _build_question(Tail(sentence), answer)
             ELSE IF Lower(SubSeq(sentence, 1, n)) = Lower(answer)
                  THEN BLANK \o SubSeq(sentence, n + 1, Len(sentence))
                  ELSE SubSeq(sentence, 1, n)
                       \o _build_question(SubSeq(sentence, n + 1, Len(sentence)), answer)

\* The vocabulary loop of generate_mcqs_from_text: the tokens of the text in
\* first-occurrence order, one per lowercase form, no stopword, longer than 3.
RECURSIVE VocabFrom(_, _)
VocabFrom(tokens, seen) ==
    IF tokens = <<>> THEN <<>>
    ELSE LET token == Head(tokens)
             token_lower == Lower(token)
         IN  IF token_lower \in seen \/ token_lower \in STOPWORDS \/ Len(token_lower) <= 3
             THEN VocabFrom(Tail(tokens), seen)
             ELSE <<token>> \o VocabFrom(Tail(tokens), seen \cup {token_lower})

VocabUnique(t) == VocabFrom(FindWords(t), {})

\* The number of distractors of a question (k=3 at the call).
K == 3

\* VocabDistractors without the test against seen.
RECURSIVE VocabDistractorsUnseen(_, _, _)
VocabDistractorsUnseen(vocabulary, seen, k) ==
    IF vocabulary = <<>> \/ k <= 0 THEN <<>>
    ELSE LET token == Head(vocabulary)
         IN  IF Len(token) <= 3 \/ Lower(token) \in STOPWORDS
             THEN VocabDistractorsUnseen(Tail(vocabulary), seen, k)
             ELSE <<token>> \o VocabDistractorsUnseen(Tail(vocabulary), seen, k - 1)

\* The for loop of _build_distractors: the first k vocabulary tokens that are not
\* in seen, are longer than 3 and are no stopword.
RECURSIVE VocabDistractors(_, _, _)
VocabDistractors(vocabulary, seen, k) ==
    IF vocabulary = <<>> \/ k <= 0 THEN <<>>
    ELSE LET token == Head(vocabulary)
             token_lower == Lower(token)
         IN  IF token_lower \in seen \/ Len(token) <= 3 \/ token_lower \in STOPWORDS
             THEN VocabDistractors(Tail(vocabulary), seen, k)
             ELSE <<token>> \o VocabDistractors(Tail(vocabulary), seen \cup {token_lower}, k - 1)

LowerSet(seq) == {Lower(seq[i]) : i \in 1..Len(seq)}

\* str(n) for the counts the synthetic distractors use.
Str(n) == <<"0", "1", "2", "3", "4", "5", "6", "7", "8", "9">>[n + 1]

\* f"{answer[:3]}{len(distractors) + 1}"
Synthetic(answer, distractors) == Prefix(answer, 3) \o Str(Len(distractors) + 1)

\* list.index(x): the first position of x, from 0; ValueError when x is absent.
ListIndex(seq, x) ==
    IF \E i \in 1..Len(seq) : seq[i] = x
    THEN Value((CHOOSE i \in 1..Len(seq) : seq[i] = x /\ \A j \in 1..(i - 1) : seq[j] # x) - 1)
    ELSE Raise("ValueError")

\* random.shuffle(options): any order of the elements.
Orders(n) == {p \in [1..n -> 1..n] : \A i, j \in 1..n : p[i] = p[j] => i = j}

Shuffled(options) ==
    {[i \in 1..Len(options) |-> options[p[i]]] : p \in Orders(Len(options))}

\* AssembleOptions with the answer's index taken before the shuffle.
AssembleOptionsIndexFirst(found, chosen) ==
    LET options == found \o <<chosen>>
    IN  {[options |-> o, answer_index |-> ListIndex(options, chosen)] : o \in Shuffled(options)}

\* options = distractors + [answer]; random.shuffle(options);
\* answer_index = options.index(answer): every outcome of the shuffle.
AssembleOptions(found, chosen) ==
    {[options |-> o, answer_index |-> ListIndex(o, chosen)] :
        o \in Shuffled(found \o <<chosen>>)}

(***************************************************************************)
(* summarizer.py, utils.py, main.py: what the entry points read            *)
(***************************************************************************)

\* SUMMARY_SENTENCE_MAP
SUMMARY_SENTENCE_MAP == [short |-> 3, medium |-> 7, long |-> 12]

\* choices=[5, 10, 20] of the quiz parser's --count
COUNT_CHOICES == {5, 10, 20}

\* The position of the last "." of s, or 0.
RECURSIVE LastDot(_, _)
LastDot(s, i) == IF i = 0 THEN 0 ELSE IF Char(s, i) = "." THEN i ELSE LastDot(s, i - 1)

\* os.path.splitext(path)[1].lower(), for a path of one component.
SplitExtLower(p) ==
    LET d == LastDot(p, Len(p))
    IN  IF d <= 1 THEN "" ELSE Lower(SubSeq(p, d, Len(p)))

\* load_text_from_path(path): the file's text, or the exception. exists and
\* contents are the file system's answer for the path.
load_text_from_path(p, exists, contents) ==
    LET ext == SplitExtLower(p)
    IN  IF ext \in {".txt", ".pdf"}
        THEN IF ~exists THEN Raise("FileNotFoundError") ELSE Value(contents)
        ELSE Raise("ValueError")

(***************************************************************************)
(* Inputs                                                                  *)
(***************************************************************************)

\* Bounds of the inputs.
MaxPieces == 4
MaxN == 3
MaxQuestions == 2

\* Texts for summarize_text: up to MaxPieces pieces, each with the whitespace
\* that follows it. "abc " has no terminator and runs into the next piece;
\* "x.y " has a terminator that no whitespace follows.
SumPieces == {"abc. ", "Abc xyz!\n", "xyz?  ", "is it. ", "abc ", "x.y "}

RECURSIVE SumTextsUpTo(_)
SumTextsUpTo(n) ==
    IF n = 0 THEN {""}
    ELSE LET shorter == SumTextsUpTo(n - 1)
         IN  shorter \cup {p \o t : p \in SumPieces, t \in shorter}

SumTexts == SumTextsUpTo(MaxPieces)

\* Texts for generate_mcqs_from_text: no sentence, one, or two. A long sentence
\* is zero to two content words before a tail of five words, which makes it
\* eligible ("with" is a stopword longer than 3); a short sentence is not
\* eligible and only adds to the vocabulary. "abc1" has the form of a synthetic
\* distractor, "____" is the blank marker, "Abcd" is "abcd" in another case.
QuizWords == {"abcd", "Abcd", "abc1", "____"}

QuizHeads ==
    {""} \cup {w \o " " : w \in QuizWords} \cup {"abcd " \o w \o " " : w \in QuizWords}

LongSentences == {h \o "is a with of in." : h \in QuizHeads}

ShortSentences == {"abcd is.", "efgh wxyz is."}

QuizSentences == LongSentences \cup ShortSentences

QuizTexts ==
    {""} \cup QuizSentences \cup {s \o "  " \o t : s \in QuizSentences, t \in QuizSentences}

\* The file system and the transcript service, for the entry points.
Paths == {"doc.txt", "doc.PDF", "doc.png", "gone.txt"}
ExistingPaths == {"doc.txt", "doc.PDF", "doc.png"}
FileTexts ==
    {"", "is it.", "abc. Abc xyz! xyz? is it. abc", "abcd efgh is a with of."}
Lengths == {"short", "medium", "long", "tiny"}
FileCounts == {2, 5}

Calls == {"summarize_text", "generate_mcqs_from_text", "summarize_file",
          "summarize_youtube_url", "generate_mcqs_from_file", "main_quiz"}

(***************************************************************************)
(* State                                                                   *)
(***************************************************************************)

VARIABLES
    call,           \* the entry point that was called
    text,           \* the text argument, or the file's / transcript's text
    path,           \* the path argument of a file entry point
    length,         \* the length argument of a summarizing entry point
    max_sentences,  \* summarize_text's max_sentences
    num_questions,  \* generate_mcqs_from_text's num_questions
    pc,             \* "start", "loop", "synth", "done" (returned), "raised",
                    \* "again" (the summary was summarized in its turn)
    error,          \* the exception that left the call, or ""
    loaded,         \* whether the file or the transcript was asked for
    result,         \* the string a summarizing call returned
    resummary,      \* what summarize_text returned for result in its turn
    selection,      \* the (score, idx, sentence) triples joined into result
    sentences,      \* generate_mcqs_from_text: the eligible sentences
    vocab_unique,   \* generate_mcqs_from_text: the vocabulary
    pos,            \* the number of sentences the for loop has taken
    mcqs,           \* the MCQs so far; the return value once pc = "done"
    used_answers,   \* the lowercase answers of the MCQs so far
    picked,         \* per MCQ: the sentence it was built from and its answer
    answer,         \* the answer word of the sentence at hand
    question,       \* the question of the sentence at hand
    distractors,    \* _build_distractors: the distractors so far
    seen,           \* _build_distractors: the lowercase values taken
    random_state    \* the module-level generator of random: the number of
                    \* random.choice and random.shuffle calls that advanced it

vars == <<call, text, path, length, max_sentences, num_questions, pc, error, loaded,
          result, resummary, selection, sentences, vocab_unique, pos, mcqs, used_answers, picked,
          answer, question, distractors, seen, random_state>>

args == <<call, text, path, length, max_sentences, num_questions>>
summary == <<result, selection>>
quiz == <<sentences, vocab_unique, pos, mcqs, used_answers, picked>>
atHand == <<answer, question, distractors, seen>>

Init ==
    /\ call \in Calls
    /\ text \in (CASE call = "summarize_text" -> SumTexts
                   [] call = "generate_mcqs_from_text" -> QuizTexts
                   [] OTHER -> FileTexts)
    /\ path \in (IF call \in {"summarize_file", "generate_mcqs_from_file", "main_quiz"}
                 THEN Paths ELSE {""})
    /\ length \in (IF call \in {"summarize_file", "summarize_youtube_url"}
                   THEN Lengths ELSE {""})
    /\ max_sentences \in (IF call = "summarize_text" THEN 1..MaxN ELSE {0})
    /\ num_questions \in (CASE call = "generate_mcqs_from_text" -> 1..MaxQuestions
                            [] call \in {"generate_mcqs_from_file", "main_quiz"} -> FileCounts
                            [] OTHER -> {0})
    /\ pc = "start"
    /\ error = ""
    /\ loaded = FALSE
    /\ result = ""
    /\ resummary = ""
    /\ selection = <<>>
    /\ sentences = <<>>
    /\ vocab_unique = <<>>
    /\ pos = 0
    /\ mcqs = <<>>
    /\ used_answers = {}
    /\ picked = <<>>
    /\ answer = ""
    /\ question = ""
    /\ distractors = <<>>
    /\ seen = {}
    /\ random_state = 0

(***************************************************************************)
(* Operations                                                              *)
(***************************************************************************)

\* The call ends with exception exc.
Raises(exc) ==
    /\ pc' = "raised"
    /\ error' = exc

\* summarize_text(t, n) runs and returns.
ReturnSummary(t, n) ==
    /\ selection' = SummarySelection(t, n)
    /\ result' = summarize_text(t, n)
    /\ pc' = "done"
    /\ error' = ""

\* generate_mcqs_from_text(t, ...) up to its for loop: the eligible sentences
\* and the vocabulary; the call returns [] when no sentence is eligible.
EnterGenerate(t) ==
    LET normalized == normalize_whitespace(t)
        eligible == EligibleSentences(split_sentences(normalized))
    IN  /\ sentences' = eligible
        /\ vocab_unique' = (IF eligible = <<>> THEN <<>> ELSE VocabUnique(normalized))
        /\ pc' = (IF eligible = <<>> THEN "done" ELSE "loop")
        /\ error' = ""
        /\ UNCHANGED <<pos, mcqs, used_answers, picked>>

\* utils.summarize_text(text, max_sentences)
SummarizeText ==
    /\ pc = "start" /\ call = "summarize_text"
    /\ ReturnSummary(text, max_sentences)
    /\ UNCHANGED <<args, resummary, random_state, loaded, quiz, atHand>>

\* summarize_text(summarize_text(text, max_sentences), max_sentences): the
\* summary a call returned is given to summarize_text with the same max_sentences.
SummarizeTextAgain ==
    /\ pc = "done" /\ call = "summarize_text"
    /\ resummary' = summarize_text(result, max_sentences)
    /\ pc' = "again"
    /\ UNCHANGED <<args, random_state, error, loaded, summary, quiz, atHand>>

\* summarizer.summarize_file(path, length)
SummarizeFile ==
    /\ pc = "start" /\ call = "summarize_file"
    /\ IF length \notin DOMAIN SUMMARY_SENTENCE_MAP
       THEN Raises("ValueError") /\ UNCHANGED <<loaded, summary>>
       ELSE LET got == load_text_from_path(path, path \in ExistingPaths, text)
            IN  /\ loaded' = TRUE
                /\ IF got.kind = "raise"
                   THEN Raises(got.exc) /\ UNCHANGED summary
                   ELSE ReturnSummary(got.value, SUMMARY_SENTENCE_MAP[length])
    /\ UNCHANGED <<args, resummary, random_state, quiz, atHand>>

\* youtube_summary.summarize_youtube_url(url, length). The video id and the
\* transcript come from outside: the id may not be found in the url, the
\* transcript may not be available, or the transcript is text.
SummarizeYoutubeUrl ==
    /\ pc = "start" /\ call = "summarize_youtube_url"
    /\ IF length \notin DOMAIN SUMMARY_SENTENCE_MAP
       THEN Raises("ValueError") /\ UNCHANGED <<loaded, summary>>
       ELSE \E outcome \in {"no video id", "no transcript", "transcript"} :
              CASE outcome = "no video id" ->
                     Raises("ValueError") /\ UNCHANGED <<loaded, summary>>
                [] outcome = "no transcript" ->
                     loaded' = TRUE /\ Raises("RuntimeError") /\ UNCHANGED summary
                [] OTHER ->
                     /\ loaded' = TRUE
                     /\ ReturnSummary(normalize_whitespace(text), SUMMARY_SENTENCE_MAP[length])
    /\ UNCHANGED <<args, resummary, random_state, quiz, atHand>>

\* quiz_generator.generate_mcqs_from_text(text, num_questions), to its loop
GenerateMcqsFromText ==
    /\ pc = "start" /\ call = "generate_mcqs_from_text"
    /\ EnterGenerate(text)
    /\ UNCHANGED <<args, resummary, random_state, loaded, summary, atHand>>

\* load_text_from_path(path), then generate_mcqs_from_text to its loop.
LoadAndGenerate ==
    LET got == load_text_from_path(path, path \in ExistingPaths, text)
    IN  /\ loaded' = TRUE
        /\ IF got.kind = "raise"
           THEN Raises(got.exc) /\ UNCHANGED quiz
           ELSE EnterGenerate(got.value)

\* quiz_generator.generate_mcqs_from_file(path, num_questions)
GenerateMcqsFromFile ==
    /\ pc = "start" /\ call = "generate_mcqs_from_file"
    /\ LoadAndGenerate
    /\ UNCHANGED <<args, resummary, random_state, summary, atHand>>

\* main.main(["quiz", path, "--count", n]): the parser takes the count only
\* from COUNT_CHOICES, and handle_quiz calls generate_mcqs_from_file.
MainQuiz ==
    /\ pc = "start" /\ call = "main_quiz"
    /\ IF num_questions \notin COUNT_CHOICES
       THEN Raises("SystemExit") /\ UNCHANGED <<loaded, quiz>>
       ELSE LoadAndGenerate
    /\ UNCHANGED <<args, resummary, random_state, summary, atHand>>

\* BreakAtCount one MCQ late: len(mcqs) > num_questions.
BreakAtCountLate == Len(mcqs) > num_questions

\* if len(mcqs) >= num_questions: break
BreakAtCount == Len(mcqs) >= num_questions

\* The for loop of generate_mcqs_from_text ends (the sentences are exhausted, or
\* the break) and mcqs is returned.
ReturnMcqs ==
    /\ pc = "loop"
    /\ pos >= Len(sentences) \/ BreakAtCount
    /\ pc' = "done"
    /\ UNCHANGED <<args, resummary, random_state, error, loaded, summary, quiz, atHand>>

\* One sentence of the for loop, to the while loop of _build_distractors: the
\* answer is selected, the question built and the vocabulary scanned. The
\* sentence is skipped (continue) when it has no answer or no blank. Choosing
\* among candidates is a random.choice, which advances the shared generator.
NextSentence ==
    /\ pc = "loop"
    /\ pos < Len(sentences) /\ ~BreakAtCount
    /\ LET sentence == sentences[pos + 1]
       IN  \E selected \in _select_answer_word(sentence, used_answers) :
             CASE selected.kind = "raise" ->
                    Raises(selected.exc) /\ UNCHANGED <<pos, atHand, random_state>>
               [] selected.kind = "none" ->
                    pos' = pos + 1 /\ UNCHANGED <<pc, error, atHand, random_state>>
               [] OTHER ->
                    LET q == _build_question(sentence, selected.value)
                        found == VocabDistractors(vocab_unique, {Lower(selected.value)}, K)
                    IN  /\ random_state' = random_state + 1
                        /\ IF q = sentence
                           THEN pos' = pos + 1 /\ UNCHANGED <<pc, error, atHand>>
                           ELSE /\ answer' = selected.value
                                /\ question' = q
                                /\ distractors' = found
                                /\ seen' = {Lower(selected.value)} \cup LowerSet(found)
                                /\ pc' = "synth"
                                /\ UNCHANGED <<pos, error>>
    /\ UNCHANGED <<args, resummary, loaded, summary, sentences, vocab_unique, mcqs, used_answers, picked>>

\* One pass of the while loop of _build_distractors: the synthetic value is
\* appended unless its lowercase form is taken; a pass that finds it taken
\* changes nothing.
SynthStep ==
    /\ pc = "synth"
    /\ Len(distractors) < K
    /\ LET synthetic == Synthetic(answer, distractors)
       IN  IF Lower(synthetic) \notin seen
           THEN /\ distractors' = Append(distractors, synthetic)
                /\ seen' = seen \cup {Lower(synthetic)}
           ELSE UNCHANGED <<distractors, seen>>
    /\ UNCHANGED <<args, resummary, random_state, pc, error, loaded, summary, quiz, answer, question>>

\* _build_distractors returns distractors[:k]; the options are shuffled, the
\* answer's index is looked up, the answer is marked used and the MCQ appended.
\* The shuffle is a random.shuffle, which advances the shared generator.
FinishQuestion ==
    /\ pc = "synth"
    /\ Len(distractors) >= K
    /\ random_state' = random_state + 1
    /\ \E made \in AssembleOptions(Prefix(distractors, K), answer) :
         IF made.answer_index.kind = "raise"
         THEN Raises(made.answer_index.exc) /\ UNCHANGED <<pos, mcqs, used_answers, picked>>
         ELSE /\ used_answers' = used_answers \cup {Lower(answer)}
              /\ mcqs' = Append(mcqs, [question |-> question, options |-> made.options,
                                       answer_index |-> made.answer_index.value])
              /\ picked' = Append(picked, [sentence |-> pos + 1, answer |-> answer])
              /\ pos' = pos + 1
              /\ pc' = "loop"
              /\ UNCHANGED error
    /\ UNCHANGED <<args, resummary, loaded, summary, sentences, vocab_unique, atHand>>

Next ==
    \/ SummarizeText
    \/ SummarizeTextAgain
    \/ SummarizeFile
    \/ SummarizeYoutubeUrl
    \/ GenerateMcqsFromText
    \/ GenerateMcqsFromFile
    \/ MainQuiz
    \/ NextSentence
    \/ SynthStep
    \/ FinishQuestion
    \/ ReturnMcqs

Spec == Init /\ [][Next]_vars

(***************************************************************************)
(* Properties                                                              *)
(***************************************************************************)

Summarizing == call \in {"summarize_text", "summarize_file", "summarize_youtube_url"}

QuizCall == call \in {"generate_mcqs_from_text", "generate_mcqs_from_file", "main_quiz"}

\* A summarizing call has returned.
Summarized == Summarizing /\ pc = "done"

\* The max_sentences the summarizing call gave summarize_text.
SummaryN ==
    IF call = "summarize_text" THEN max_sentences ELSE SUMMARY_SENTENCE_MAP[length]

\* The sentences of the text.
TextSentences == split_sentences(text)

\* The sentences of a selection, and their original indices.
SelectionSentences == [i \in 1..Len(selection) |-> selection[i].sentence]
SelectionIndices == [i \in 1..Len(selection) |-> selection[i].idx]

\* Every selected triple is one of the sentences ss at its index, and the result
\* is the selected sentences joined by single spaces.
SelectionIsOf(ss) ==
    /\ \A i \in 1..Len(selection) :
         /\ selection[i].idx \in 0..(Len(ss) - 1)
         /\ selection[i].sentence = ss[selection[i].idx + 1]
    /\ result = Join(" ", SelectionSentences)

\* C1: when the text segments into at most N sentences, summarize_text returns
\* all its sentences, verbatim and in original order, joined by single spaces.
C1_ShortTextReturnedWhole ==
    Summarized =>
        LET ss == TextSentences
        IN  Len(ss) <= SummaryN =>
                /\ result = Join(" ", ss)
                /\ SelectionIndices = [i \in 1..Len(ss) |-> i - 1]

\* A text of exactly N sentences, two or more, has been returned whole.
C1_Witness ==
    /\ call = "summarize_text" /\ pc = "done"
    /\ Len(TextSentences) = max_sentences /\ max_sentences >= 2
    /\ result = Join(" ", TextSentences)

\* C2: the sentences of a summary appear in strictly increasing original index,
\* whatever their scores.
C2_OutputInOriginalOrder ==
    Summarized =>
        /\ SelectionIsOf(TextSentences)
        /\ \A i, j \in 1..Len(selection) : i < j => selection[i].idx < selection[j].idx

\* A summary on the scored path whose score order is not its index order.
C2_Witness ==
    /\ call = "summarize_text" /\ pc = "done"
    /\ Len(TextSentences) > max_sentences
    /\ LET freqs == _build_word_frequencies(TextSentences)
       IN  /\ DOMAIN freqs # {}
           /\ TopSentencesInScoreOrder(ScoredSentences(TextSentences, freqs), max_sentences)
                # selection

\* C3: when the text segments into more than N sentences, the summary is exactly
\* N sentences of the text at distinct indices, and is strictly shorter than the
\* whitespace-normalized text, on the scored path and on the fallback path.
C3_LongTextCutToN ==
    Summarized =>
        LET ss == TextSentences
        IN  Len(ss) > SummaryN =>
                /\ Len(selection) = SummaryN
                /\ SelectionIsOf(ss)
                /\ \A i, j \in 1..Len(selection) :
                     i # j => selection[i].idx # selection[j].idx
                /\ Len(result) < Len(normalize_whitespace(text))

\* A summary on the fallback path: more than N sentences, no counted token.
C3_Witness ==
    /\ call = "summarize_text" /\ pc = "done"
    /\ Len(TextSentences) > max_sentences
    /\ DOMAIN _build_word_frequencies(TextSentences) = {}
    /\ Len(selection) = max_sentences

\* The eligible sentences the call took from its text are those of the text.
SentencesAreOfText ==
    sentences = EligibleSentences(split_sentences(normalize_whitespace(text)))

\* C4: at most k MCQs and at most one per eligible sentence, in the document
\* order of their source sentences.
C4_AtMostKInDocumentOrder ==
    QuizCall =>
        /\ Len(mcqs) <= num_questions
        /\ Len(mcqs) <= Len(sentences)
        /\ Len(picked) = Len(mcqs)
        /\ \A i \in 1..Len(mcqs) : picked[i].sentence \in 1..Len(sentences)
        /\ \A i, j \in 1..Len(mcqs) : i < j => picked[i].sentence < picked[j].sentence
        /\ (pc = "done" /\ mcqs # <<>>) =>
             /\ SentencesAreOfText
             /\ \A i \in 1..Len(mcqs) :
                  mcqs[i].question =
                    _build_question(sentences[picked[i].sentence], picked[i].answer)

\* The call returned k MCQs with an eligible sentence left over.
C4_Witness ==
    /\ call = "generate_mcqs_from_text" /\ pc = "done"
    /\ Len(mcqs) = num_questions
    /\ pos < Len(sentences)

\* The token of the sentence that the question has the blank in place of: the
\* first token at which the two differ.
Blanked(sentence, q) ==
    LET a == FindWords(sentence)
        b == FindWords(q)
        j == CHOOSE n \in 1..Len(a) : a[n] # b[n] /\ \A m \in 1..(n - 1) : a[m] = b[m]
    IN  a[j]

C6_OptionsDistinct ==
    (QuizCall /\ pc = "done") =>
        \A i \in 1..Len(mcqs) :
            LET lowered == [n \in 1..Len(mcqs[i].options) |-> Lower(mcqs[i].options[n])]
            IN  \A a, b \in 1..Len(lowered) : a # b => lowered[a] # lowered[b]

\* An MCQ with a distractor from the vocabulary and a synthesized one.
C6_Witness ==
    /\ call = "generate_mcqs_from_text" /\ pc = "done"
    /\ \E i \in 1..Len(mcqs) :
         LET vocab == {vocab_unique[n] : n \in 1..Len(vocab_unique)}
             wrong == {mcqs[i].options[n] : n \in 1..4} \ {picked[i].answer}
         IN  wrong \cap vocab # {} /\ wrong \ vocab # {}

\* The correct answer of an MCQ.
AnswerOf(mcq) == mcq.options[mcq.answer_index + 1]

\* C7: no two MCQs of a call have the same correct answer case-insensitively, and
\* the used answers are those of the MCQs alone: a skipped sentence marks none.
C7_AnswersUnique ==
    QuizCall =>
        /\ \A i, j \in 1..Len(mcqs) :
             i < j => Lower(AnswerOf(mcqs[i])) # Lower(AnswerOf(mcqs[j]))
        /\ used_answers = {Lower(AnswerOf(mcqs[i])) : i \in 1..Len(mcqs)}

\* Two MCQs, the second from a sentence that holds the first one's answer word.
C7_Witness ==
    /\ call = "generate_mcqs_from_text" /\ pc = "done"
    /\ Len(mcqs) = 2
    /\ Lower(AnswerOf(mcqs[1])) \in LowerSet(FindWords(sentences[picked[2].sentence]))

\* The text has an eligible sentence with a token longer than 3 that is no stopword.
HasAnswerableSentence ==
    LET eligible == EligibleSentences(split_sentences(text))
    IN  \E i \in 1..Len(eligible) : Candidates(eligible[i], {}) # <<>>

\* C8: a text with an eligible sentence that holds an eligible answer word gets
\* at least one MCQ (k >= 1).
C8_AtLeastOneMcq ==
    (call = "generate_mcqs_from_text" /\ pc = "done"
       /\ num_questions >= 1 /\ HasAnswerableSentence)
    => Len(mcqs) >= 1

\* The argument of the call is outside the supported set.
UnsupportedArgument ==
    \/ call \in {"summarize_file", "summarize_youtube_url"}
         /\ length \notin DOMAIN SUMMARY_SENTENCE_MAP
    \/ call \in {"generate_mcqs_from_file", "main_quiz"}
         /\ num_questions \notin COUNT_CHOICES

\* C9: a summary length or question count outside the supported set is rejected
\* before the file or transcript is loaded and before anything is produced.
C9_UnsupportedRejectedFirst ==
    UnsupportedArgument =>
        /\ pc \in {"start", "raised"}
        /\ ~loaded
        /\ result = "" /\ mcqs = <<>>

\* The text has no eligible sentence, or none with an eligible answer word.
NoMaterial == ~HasAnswerableSentence

\* C10: generate_mcqs_from_text never raises, and a text with no eligible
\* sentence, or none holding an eligible answer word, never reaches the
\* distractor loop and returns the empty sequence; summarize_text never raises
\* and returns "" for a text of no sentence.
C10_NoMaterialIsNoError ==
    /\ call = "generate_mcqs_from_text" =>
         /\ pc # "raised" /\ error = ""
         /\ (pc = "synth" \/ (pc = "done" /\ mcqs # <<>>)) => ~NoMaterial
    /\ call = "summarize_text" =>
         /\ pc # "raised" /\ error = ""
         /\ (pc = "done" /\ TextSentences = <<>>) => result = ""

\* The call returned [] for a text whose eligible sentence has no answer word.
C10_Witness ==
    /\ call = "generate_mcqs_from_text" /\ pc = "done"
    /\ sentences # <<>> /\ NoMaterial
    /\ mcqs = <<>> /\ error = ""


\* C11: a call of summarize_text or of generate_mcqs_from_text changes no
\* process-wide state: no step of the call advances the shared generator of
\* random, so the next call finds it as this one did.
C11_CallsLeaveSharedStateAlone ==
    [][(call \in {"summarize_text", "generate_mcqs_from_text"})
         => (random_state' = random_state)]_vars


\* C12: _build_distractors terminates with exactly K distractors: whenever its
\* while loop holds fewer than K, the synthetic value of the pass is taken
\* neither by the answer nor by a chosen distractor, so the pass appends it. A
\* pass that finds its value taken changes nothing, and the loop never ends.
C12_EveryPassAddsADistractor ==
    /\ pc = "synth" => Len(distractors) <= K
    /\ (pc = "synth" /\ Len(distractors) < K)
         => Lower(Synthetic(answer, distractors)) \notin seen


\* The number of places of the token sequence toks that hold tok.
Occurrences(toks, tok) == Cardinality({k \in 1..Len(toks) : toks[k] = tok})

\* The score the summarizer's contract gives a sentence of the sentences ss: over
\* its lowercase tokens, the number of times the token occurs in the lowercase
\* tokens of ss, and 0 for a stopword or a token of length <= 2.
RECURSIVE SumOccurrences(_, _)
SumOccurrences(all, own) ==
    IF own = <<>> THEN 0
    ELSE (IF Counted(Head(own)) THEN Occurrences(all, Head(own)) ELSE 0)
         + SumOccurrences(all, Tail(own))

ContractScore(ss, sentence) == SumOccurrences(LowerTokens(ss), FindWords(Lower(sentence)))

\* The original indices of the selected sentences.
Chosen == {selection[i].idx : i \in 1..Len(selection)}

\* C13: with more than N sentences and a non-empty frequency table, the summary
\* is of the N highest-scoring sentences, ties going to the lower original index:
\* every selected sentence beats every unselected one on score, or equals it on
\* score and comes before it; the score is the sum of the frequency counts of
\* the sentence's lowercase tokens.
C13_TopNTiesToLowerIndex ==
    Summarized =>
        LET ss == TextSentences
            score == [i \in 0..(Len(ss) - 1) |-> ContractScore(ss, ss[i + 1])]
        IN  (Len(ss) > SummaryN /\ \E i \in DOMAIN score : score[i] > 0) =>
                /\ Len(selection) = SummaryN
                /\ Chosen \subseteq DOMAIN score
                /\ \A k \in 1..Len(selection) : selection[k].score = score[selection[k].idx]
                /\ \A i \in Chosen : \A j \in (DOMAIN score) \ Chosen :
                     score[i] > score[j] \/ (score[i] = score[j] /\ i < j)

\* A summary on the scored path that left out a sentence of the score of one it
\* took: the tie went to the lower index.
C13_Witness ==
    /\ call = "summarize_text" /\ pc = "done"
    /\ Len(TextSentences) > max_sentences
    /\ DOMAIN _build_word_frequencies(TextSentences) # {}
    /\ \E k \in 1..Len(selection) :
         \E j \in (0..(Len(TextSentences) - 1)) \ Chosen :
            /\ selection[k].score = ContractScore(TextSentences, TextSentences[j + 1])
            /\ selection[k].score > 0
            /\ selection[k].idx < j


\* C14: summarize_text is idempotent for a fixed N: summarizing the summary of
\* a text with the same N returns the summary unchanged, and the summary
\* segments into exactly the sentences that were joined to build it.
C14_SummarizeTextIdempotent ==
    (call = "summarize_text" /\ pc = "again") =>
        /\ resummary = result
        /\ split_sentences(result) = SelectionSentences

\* The summary of a cut text, of two sentences or more with the text's
\* unterminated last sentence among them, was summarized in its turn.
C14_Witness ==
    /\ call = "summarize_text" /\ pc = "again"
    /\ Len(TextSentences) > max_sentences
    /\ Len(selection) >= 2
    /\ ~IsTerminator(Char(result, Len(result)))
    /\ resummary = result

====
